---------------------------- MODULE Spec2Model ----------------------------
(***************************************************************************)
(* A model of the PokePipeline ETL (src/pokepipeline): the retrying        *)
(* fetcher and the semaphore-bounded concurrent detail fetch (etl.py), the  *)
(* transformer, the loader with its ORM session, the transactional         *)
(* session scope (db.py) and the orchestrator run_etl (pipeline.py).       *)
(*                                                                         *)
(* Five specifications share the variables:                                *)
(*   SpecFetch      fetch_pokemon_details alone, on any list of targets;   *)
(*   SpecFetchLive  the same call under the event loop's fair scheduling;  *)
(*   SpecLoad       session_scope + load_batch alone, on any batch;        *)
(*   Spec           one run of run_etl, end to end, on a filled store;     *)
(*   SpecTransform  transform_one on payloads of any height and weight.    *)
(***************************************************************************)
EXTENDS Integers, Sequences, FiniteSets, TLC

(***************************************************************************)
(* Configuration (config.py 22-23).  Both values are read from the         *)
(* environment (defaults 8 and 3); the model is the program configured     *)
(* with MAX_CONCURRENCY=2 and MAX_RETRIES=2, so that a list longer than    *)
(* the cap and a call that uses up its attempts stay small.                *)
(***************************************************************************)
MAX_CONCURRENCY == 2
MAX_RETRIES == 2

(***************************************************************************)
(* Bounds of the model.                                                    *)
(***************************************************************************)
\* longest list of targets handed to fetch_pokemon_details in SpecFetch
MaxTargets == 3
\* longest listing page a run of run_etl receives in Spec
MaxListing == 2
\* longest batch handed to load_batch in SpecLoad
MaxBatch == 2
\* number of session scopes opened in one behaviour of SpecLoad
MaxLoads == 2
\* largest magnitude of a raw height or raw weight in SpecTransform
MaxRaw == 2
\* longest list of targets handed to fetch_pokemon_details in SpecFetchLive
MaxLiveTargets == 4

VARIABLES
    \* ---- fetch_pokemon_details (etl.py 54-64)
    targets,      \* names_or_urls: the list of targets
    task,         \* task[i]: the coroutine _one(targets[i]) and its _fetch_json call
    sem,          \* the value of asyncio.Semaphore(MAX_CONCURRENCY)
    waiters,      \* the semaphore's FIFO queue of blocked tasks
    gathered,     \* asyncio.gather's result slots, one per target
    gather,       \* the state of the gather future
    \* ---- what the network saw (history of the environment, not program state)
    requests,     \* requests[i]: number of HTTP GETs sent by call i
    inflight,     \* inflight[i]: number of GETs of call i not yet answered
    served,       \* served[i]: the payload the remote sent for target i, and in answer to which request
    \* ---- run_etl (pipeline.py 11-21) and the listing call (etl.py 46-51)
    run,          \* the position of the current run_etl / load call
    listCall,     \* the _fetch_json call of fetch_pokemon_list
    listing,      \* the listing page the remote answered with
    details,      \* the list fetch_pokemon_details returned
    items,        \* the batch: the transformed records, in order
    loaded,       \* the count load_batch returned
    ret,          \* what the last call returned or raised
    runs,         \* number of calls started so far
    \* ---- the store and the ORM session (db.py 35-49, etl.py 138-212)
    store,        \* the committed rows of the seven tables
    session,      \* the open session: identity map and pending objects
    issued,       \* the merge calls issued by the current load_batch, in order
    storeBefore,  \* the store as it was when the current call started
    reload        \* the current load repeats the batch of the committed previous one

vars == <<targets, task, sem, waiters, gathered, gather, requests, inflight,
          served, run, listCall, listing, details, items, loaded, ret, runs,
          store, session, issued, storeBefore, reload>>

fetchVars == <<targets, task, sem, waiters, gathered, gather, requests,
               inflight, served>>
callVars == <<listCall, listing, details, items, loaded, ret, runs>>
loadVars == <<store, session, issued, storeBefore, reload>>

(***************************************************************************)
(* Generic helpers.                                                        *)
(***************************************************************************)
None == <<>>
Some(v) == <<v>>

Range(s) == {s[i] : i \in 1..Len(s)}

SeqsUpTo(S, n) == UNION {[1..k -> S] : k \in 0..n}

RECURSIVE SetToSeq(_)
\* the elements of a set of integers, ascending
SetToSeq(S) ==
    IF S = {} THEN <<>>
    ELSE LET m == CHOOSE x \in S : \A y \in S : x <= y
         IN  <<m>> \o SetToSeq(S \ {m})


(***************************************************************************)
(* Floats are modelled as exact rationals in lowest terms: the model keeps  *)
(* the value a float operation aims at and leaves out its rounding.        *)
(***************************************************************************)
RECURSIVE GCD(_, _)
GCD(a, b) == IF b = 0 THEN a ELSE GCD(b, a % b)

Rat(n, d) == LET g == GCD(n, d) IN [num |-> n \div g, den |-> d \div g]
RatMul(x, y) == Rat(x.num * y.num, x.den * y.den)
RatDiv(x, y) == Rat(x.num * y.den, x.den * y.num)
RatPositive(x) == x.num > 0

(***************************************************************************)
(* The remote API (PokeAPI).  A locator is the list of the segments of its  *)
(* URL between the slashes; "https://pokeapi.co/api/v2/type/12/" ends with  *)
(* the segments "type", "12" and an empty one.                             *)
(***************************************************************************)
Url(kind, id) ==
    <<"https:", "", "pokeapi.co", "api", "v2", kind, ToString(id), "">>

\* ids a locator of the model can carry
RefIds == {1, 4, 12, 65}

RECURSIVE RStripSlash(_)
\* url.rstrip("/"): every trailing slash goes, that is every trailing empty segment
RStripSlash(segs) ==
    IF Len(segs) > 1 /\ segs[Len(segs)] = ""
    THEN RStripSlash(SubSeq(segs, 1, Len(segs) - 1))
    ELSE segs

\* int(s) of a decimal string
ParseInt(s) == CHOOSE n \in RefIds : ToString(n) = s

\* _id_from_url: the trailing integer segment of a locator
IdFromUrl(url) ==
    LET segs == RStripSlash(url) IN ParseInt(segs[Len(segs)])

TypeRef(id, name, slot) ==
    [slot |-> slot, type |-> [name |-> name, url |-> Url("type", id)]]
AbilityRef(id, name, hidden, slot) ==
    [ability |-> [name |-> name, url |-> Url("ability", id)],
     is_hidden |-> hidden, slot |-> slot]
StatRef(id, name, base, effort) ==
    [base_stat |-> base, effort |-> effort,
     stat |-> [name |-> name, url |-> Url("stat", id)]]

\* The bodies the detail endpoint can answer with, less id and name.
\* The first is the payload of test_transform.py cut to one ability and one
\* stat; the second has height 0, no optional field, one type less and other
\* values in what it keeps.
Shapes ==
    { [height |-> 7, weight |-> 69, base_experience |-> Some(64),
       sprites |-> Some("img.png"),
       types |-> <<TypeRef(12, "grass", 1), TypeRef(4, "poison", 2)>>,
       abilities |-> <<AbilityRef(65, "overgrow", FALSE, 1)>>,
       stats |-> <<StatRef(1, "hp", 45, 0)>>],
      [height |-> 0, weight |-> 10, base_experience |-> None,
       sprites |-> None,
       types |-> <<TypeRef(12, "grass", 2)>>,
       abilities |-> <<AbilityRef(65, "overgrow", TRUE, 3)>>,
       stats |-> <<StatRef(1, "hp", 60, 1)>>] }

\* The (id, name) pairs the remote can serve: two Pokemon, and the second id
\* under the first one's name (the remote renamed it).
Identities ==
    { [id |-> 1, name |-> "bulbasaur"],
      [id |-> 2, name |-> "ivysaur"],
      [id |-> 2, name |-> "bulbasaur"] }

Names == {i.name : i \in Identities}

MkPayload(i, s) ==
    [id |-> i.id, name |-> i.name, height |-> s.height, weight |-> s.weight,
     base_experience |-> s.base_experience, sprites |-> s.sprites,
     types |-> s.types, abilities |-> s.abilities, stats |-> s.stats]

Payloads == {MkPayload(i, s) : i \in Identities, s \in Shapes}

\* what GET /pokemon/{target} can answer: a payload of that name
PayloadsFor(target) == {p \in Payloads : p.name = target}

(***************************************************************************)
(* Transformer (etl.py 83-134).                                            *)
(***************************************************************************)
_to_cm(dm) == dm * 10

\* a conversion that drops the fraction (hg // 10)
_to_kg_floor(hg) == Rat(hg \div 10, 1)

_to_kg(hg) == Rat(hg, 10)

\* a guard that only excludes the division by zero (m != 0)
_bmi_nonzero(height_cm, weight_kg) ==
    LET m == Rat(height_cm, 100)
    IN  IF m.num # 0 THEN Some(RatDiv(weight_kg, RatMul(m, m))) ELSE None

_bmi(height_cm, weight_kg) ==
    LET m == Rat(height_cm, 100)
    IN  IF RatPositive(m) THEN Some(RatDiv(weight_kg, RatMul(m, m))) ELSE None

transform_one(payload) ==
    LET height_cm == _to_cm(payload.height)
        weight_kg == _to_kg(payload.weight)
    IN  [id |-> payload.id,
         name |-> payload.name,
         base_experience |-> payload.base_experience,
         height_cm |-> height_cm,
         weight_kg |-> weight_kg,
         bmi |-> _bmi(height_cm, weight_kg),
         sprite_url |-> payload.sprites,
         types |-> [k \in 1..Len(payload.types) |->
                      LET t == payload.types[k]
                      IN  <<IdFromUrl(t.type.url), t.type.name, t.slot>>],
         abilities |-> [k \in 1..Len(payload.abilities) |->
                      LET a == payload.abilities[k]
                      IN  <<IdFromUrl(a.ability.url), a.ability.name,
                            a.is_hidden, a.slot>>],
         stats |-> [k \in 1..Len(payload.stats) |->
                      LET s == payload.stats[k]
                      IN  <<IdFromUrl(s.stat.url), s.stat.name,
                            s.base_stat, s.effort>>]]

\* every record the transformer can hand to the loader
TRecords == {transform_one(p) : p \in Payloads}


(***************************************************************************)
(* _fetch_json (etl.py 31-43).  A call is a record: pc is where the        *)
(* coroutine stands ("get": awaiting client.get, "sleep": awaiting          *)
(* asyncio.sleep(0.5), "returned", "raised"), i counts the iterations of   *)
(* the for loop that are over, last_exc is the local of that name.  An     *)
(* exception is identified by the request that produced it.                *)
(***************************************************************************)
NoExc == [kind |-> "None", attempt |-> 0]
NetworkError(n) == [kind |-> "NetworkError", attempt |-> n]
AssertionError == [kind |-> "AssertionError", attempt |-> 0]

IdleCall ==
    [pc |-> "idle", i |-> 0, last_exc |-> NoExc, value |-> None, exc |-> NoExc]

\* entering the call: last_exc = None, then the first iteration's client.get,
\* or, with an empty range, the assert of line 42
FetchJsonEnter ==
    IF MAX_RETRIES > 0
    THEN [IdleCall EXCEPT !.pc = "get"]
    ELSE [IdleCall EXCEPT !.pc = "raised", !.exc = AssertionError]

\* lines 36-38: the response is a success, its json is returned
FetchJsonOk(c, payload) == [c EXCEPT !.pc = "returned", !.value = Some(payload)]

\* FetchJsonErr keeping the first exception instead of the latest
FetchJsonErrKeepFirst(c, exc) ==
    [c EXCEPT !.pc = "sleep",
              !.last_exc = IF c.last_exc = NoExc THEN exc ELSE c.last_exc]

\* lines 39-41: the attempt failed; remember the exception, sleep
FetchJsonErr(c, exc) == [c EXCEPT !.pc = "sleep", !.last_exc = exc]

\* the exception that leaves the call once the loop is over (line 43)
FetchJsonRaised(c) == c.last_exc

\* whether range(MAX_RETRIES) yields another iteration after i + 1 are over
FetchJsonAgain(i) == i + 1 < MAX_RETRIES

\* the sleep is over: the next iteration of the loop, or lines 42-43
FetchJsonWake(c) ==
    IF FetchJsonAgain(c.i)
    THEN [c EXCEPT !.pc = "get", !.i = c.i + 1]
    ELSE [c EXCEPT !.pc = "raised", !.i = c.i + 1, !.exc = FetchJsonRaised(c)]

(***************************************************************************)
(* fetch_pokemon_details (etl.py 54-64): one task per target, each under   *)
(* "async with sem".  A task is "new" (created by gather, not yet run),    *)
(* "waiting" (queued in sem.acquire), "admitted" (handed a slot, not yet   *)
(* resumed), "running" (inside the async with blocks; task.call says       *)
(* where), "done", "failed" or "cancelled".                                *)
(***************************************************************************)
NewTask == [pc |-> "new", call |-> IdleCall]

Idx == 1..Len(targets)

\* SemLocked with the test for a free slot forgotten
SemLockedQueueOnly(value, queue) == queue # <<>>

\* asyncio.Semaphore.locked(): no free slot, or somebody queued before us
SemLocked(value, queue) == value = 0 \/ queue # <<>>

\* Semaphore.release() hands the slot to the first waiter, if there is one
SemReleaseValue(value, queue) == IF queue = <<>> THEN value + 1 ELSE value

\* tasks that hold a slot of the semaphore
Holding(t) == {i \in DOMAIN t : t[i].pc \in {"admitted", "running"}}

\* GatherStore filling the slots in the order of completion
GatherStoreNextFree(slots, i, v) ==
    LET free == CHOOSE k \in 1..Len(slots) :
                    slots[k] = None /\ \A j \in 1..(k - 1) : slots[j] # None
    IN  [slots EXCEPT ![free] = v]

\* gather's result slot i receives the value task i returned
GatherStore(slots, i, v) == [slots EXCEPT ![i] = v]

\* the list gather hands back: the slots, in the order of the awaitables
GatherResult(slots) == [i \in 1..Len(slots) |-> slots[i][1]]

Finished(t) == t.pc \in {"done", "failed", "cancelled"}

\* fetch_pokemon_details is called: the semaphore is made, gather creates
\* one task per target (lines 56, 64); gather() of nothing is already done
EnterDetails(tg) ==
    /\ targets' = tg
    /\ task' = [i \in 1..Len(tg) |-> NewTask]
    /\ sem' = MAX_CONCURRENCY
    /\ waiters' = <<>>
    /\ gathered' = [i \in 1..Len(tg) |-> None]
    /\ gather' = [state |-> IF tg = <<>> THEN "returned" ELSE "pending",
                  exc |-> NoExc]
    /\ requests' = [i \in 1..Len(tg) |-> 0]
    /\ inflight' = [i \in 1..Len(tg) |-> 0]
    /\ served' = [i \in 1..Len(tg) |-> None]

\* a task reaches "return await _fetch_json(client, url)": the call starts
\* and, unless the range is empty, its first request goes out
BeginCall(i) ==
    /\ requests' = [requests EXCEPT ![i] = IF FetchJsonEnter.pc = "get" THEN 1 ELSE 0]
    /\ inflight' = [inflight EXCEPT ![i] = IF FetchJsonEnter.pc = "get" THEN 1 ELSE 0]

\* The event loop runs task i for the first time (tasks start in the order
\* gather created them): "async with sem" takes a slot and the request goes
\* out, or the task queues up behind the semaphore.
Start(i) ==
    /\ run = "details"
    /\ i \in Idx
    /\ task[i].pc = "new"
    /\ \A j \in 1..(i - 1) : task[j].pc # "new"
    /\ IF SemLocked(sem, waiters)
       THEN /\ waiters' = Append(waiters, i)
            /\ task' = [task EXCEPT ![i].pc = "waiting"]
            /\ UNCHANGED <<sem, requests, inflight>>
       ELSE /\ sem' = sem - 1
            /\ task' = [task EXCEPT ![i] = [pc |-> "running", call |-> FetchJsonEnter]]
            /\ BeginCall(i)
            /\ UNCHANGED waiters
    /\ UNCHANGED <<targets, gathered, gather, served>>

\* a task that was handed a slot by release() resumes inside "async with sem"
Resume(i) ==
    /\ run = "details"
    /\ i \in Idx
    /\ task[i].pc = "admitted"
    /\ task' = [task EXCEPT ![i] = [pc |-> "running", call |-> FetchJsonEnter]]
    /\ BeginCall(i)
    /\ UNCHANGED <<targets, sem, waiters, gathered, gather, served>>

\* the remote answers task i's request with a success and a payload
RespondOk(i) ==
    /\ run = "details"
    /\ i \in Idx
    /\ task[i].pc = "running" /\ task[i].call.pc = "get"
    /\ \E p \in PayloadsFor(targets[i]) :
          /\ task' = [task EXCEPT ![i].call = FetchJsonOk(@, p)]
          /\ served' = [served EXCEPT ![i] =
                          Some([payload |-> p, attempt |-> requests[i]])]
    /\ inflight' = [inflight EXCEPT ![i] = @ - 1]
    /\ UNCHANGED <<targets, sem, waiters, gathered, gather, requests>>

\* task i's request fails: connection error, timeout or raise_for_status
RespondErr(i) ==
    /\ run = "details"
    /\ i \in Idx
    /\ task[i].pc = "running" /\ task[i].call.pc = "get"
    /\ task' = [task EXCEPT ![i].call = FetchJsonErr(@, NetworkError(requests[i]))]
    /\ inflight' = [inflight EXCEPT ![i] = @ - 1]
    /\ UNCHANGED <<targets, sem, waiters, gathered, gather, requests, served>>

\* the retry delay of task i is over: the next request goes out, or the
\* call raises
SleepDone(i) ==
    /\ run = "details"
    /\ i \in Idx
    /\ task[i].pc = "running" /\ task[i].call.pc = "sleep"
    /\ LET c == FetchJsonWake(task[i].call)
       IN  /\ task' = [task EXCEPT ![i].call = c]
           /\ requests' = [requests EXCEPT ![i] = IF c.pc = "get" THEN @ + 1 ELSE @]
           /\ inflight' = [inflight EXCEPT ![i] = IF c.pc = "get" THEN @ + 1 ELSE @]
    /\ UNCHANGED <<targets, sem, waiters, gathered, gather, served>>

\* GatherAfter as under return_exceptions=True: a failure is one more result
GatherAfterSwallow(g, t, i, c) ==
    IF g.state # "pending" THEN g
    ELSE IF \A j \in DOMAIN t : j = i \/ t[j].pc \in {"done", "failed"}
         THEN [state |-> "returned", exc |-> NoExc]
         ELSE g

\* gather's future after task i has ended with call c: the first exception
\* is propagated at once; the list is returned when every task has returned
GatherAfter(g, t, i, c) ==
    IF g.state # "pending" THEN g
    ELSE IF c.pc = "raised" THEN [state |-> "raised", exc |-> c.exc]
    ELSE IF \A j \in DOMAIN t : j = i \/ t[j].pc = "done"
         THEN [state |-> "returned", exc |-> NoExc]
         ELSE g

\* Leave with the wake-up lost: the slot goes back to the counter and the
\* first waiter is left in the queue
LeaveNoWake(i) ==
    /\ run = "details"
    /\ i \in Idx
    /\ task[i].pc = "running" /\ task[i].call.pc \in {"returned", "raised"}
    /\ LET c == task[i].call
       IN  /\ sem' = sem + 1
           /\ task' = [task EXCEPT ![i].pc = IF c.pc = "returned" THEN "done" ELSE "failed"]
           /\ waiters' = waiters
           /\ gathered' = IF c.pc = "returned" /\ gather.state = "pending"
                          THEN GatherStore(gathered, i, c.value)
                          ELSE gathered
           /\ gather' = GatherAfter(gather, task, i, c)
    /\ UNCHANGED <<targets, requests, inflight, served>>

\* Task i leaves "async with client" and "async with sem", by return or by
\* exception: the slot is released (to the first waiter, if any) and gather
\* takes the outcome.
Leave(i) ==
    /\ run = "details"
    /\ i \in Idx
    /\ task[i].pc = "running" /\ task[i].call.pc \in {"returned", "raised"}
    /\ LET c == task[i].call
           ended == [task EXCEPT ![i].pc = IF c.pc = "returned" THEN "done" ELSE "failed"]
       IN  /\ sem' = SemReleaseValue(sem, waiters)
           /\ task' = IF waiters = <<>> THEN ended
                      ELSE [ended EXCEPT ![Head(waiters)].pc = "admitted"]
           /\ waiters' = IF waiters = <<>> THEN waiters ELSE Tail(waiters)
           /\ gathered' = IF c.pc = "returned" /\ gather.state = "pending"
                          THEN GatherStore(gathered, i, c.value)
                          ELSE gathered
           /\ gather' = GatherAfter(gather, task, i, c)
    /\ UNCHANGED <<targets, requests, inflight, served>>

\* gather raised into the caller and asyncio.run (pipeline.py 18) tears the
\* loop down: every task still alive is cancelled, leaves its async with
\* blocks and gives its slot back
CancelAll ==
    /\ run = "details"
    /\ gather.state = "raised"
    /\ \E i \in Idx : ~Finished(task[i])
    /\ task' = [i \in Idx |-> IF Finished(task[i]) THEN task[i]
                              ELSE [task[i] EXCEPT !.pc = "cancelled"]]
    /\ sem' = sem + Cardinality(Holding(task))
    /\ waiters' = <<>>
    /\ inflight' = [i \in Idx |-> 0]
    /\ UNCHANGED <<targets, gathered, gather, requests, served>>


(***************************************************************************)
(* The store (models.py): seven tables, each the set of its rows.  The     *)
(* constraints are the database's: primary keys, the unique names and the  *)
(* foreign keys of the association tables (db.py 23-28 turns them on).     *)
(***************************************************************************)
Tables == <<"pokemon", "type", "ability", "stat",
            "pokemon_type", "pokemon_ability", "pokemon_stat">>

EmptyStore ==
    [pokemon |-> {}, type |-> {}, ability |-> {}, stat |-> {},
     pokemon_type |-> {}, pokemon_ability |-> {}, pokemon_stat |-> {}]

\* the reference table an association table points to, and through which column
RefTable(t) ==
    CASE t = "pokemon_type" -> "type"
      [] t = "pokemon_ability" -> "ability"
      [] t = "pokemon_stat" -> "stat"

IsAssociation(t) == t \in {"pokemon_type", "pokemon_ability", "pokemon_stat"}

RefId(t, row) ==
    CASE t = "pokemon_type" -> row.type_id
      [] t = "pokemon_ability" -> row.ability_id
      [] t = "pokemon_stat" -> row.stat_id

\* the primary key of a row
PK(t, row) == IF IsAssociation(t) THEN <<row.pokemon_id, RefId(t, row)>>
              ELSE <<row.id>>

\* unique=True on the name column (models.py 28, 57, 66, 75)
NameIsFree(t, rows, row) ==
    IsAssociation(t) \/ \A r \in rows : r.name # row.name

\* ForeignKey("pokemon.id"), ForeignKey("type.id") ... (models.py 84-122)
ForeignKeysHold(t, db, row) ==
    IsAssociation(t) =>
        /\ \E p \in db.pokemon : p.id = row.pokemon_id
        /\ \E r \in db[RefTable(t)] : r.id = RefId(t, row)

(***************************************************************************)
(* The ORM session (SessionLocal, db.py 33: autoflush off).  It holds the  *)
(* identity map, keyed by primary key (the persistent objects, each with   *)
(* its current attribute values), the pending new objects in the order     *)
(* they were added, and the connection's uncommitted view of the store.    *)
(***************************************************************************)
NoObjects ==
    [pokemon |-> <<>>, type |-> <<>>, ability |-> <<>>, stat |-> <<>>,
     pokemon_type |-> <<>>, pokemon_ability |-> <<>>, pokemon_stat |-> <<>>]

ClosedSession ==
    [state |-> "closed", persistent |-> EmptyStore, pending |-> NoObjects,
     txn |-> EmptyStore]

\* SessionLocal(): a fresh session on the store as committed
OpenSession(db) ==
    [state |-> "open", persistent |-> EmptyStore, pending |-> NoObjects,
     txn |-> db]

\* Overwrite as insert-if-absent: an existing row keeps its values
OverwriteKeep(row, given) == row

\* merge copies onto the target every attribute the given object has set
Overwrite(row, given) ==
    [f \in DOMAIN row |-> IF f \in DOMAIN given THEN given[f] ELSE row[f]]

\* Merge as session.add: always a new pending object
MergeAsAdd(sess, t, given) == [sess EXCEPT !.pending[t] = Append(@, given)]

\* Session.merge(obj): the object of that key in the identity map, else the
\* row of that key loaded from the database, receives the given attributes;
\* when there is neither, a new pending object is added.
Merge(sess, t, given) ==
    LET k == PK(t, given)
        inMap == {r \in sess.persistent[t] : PK(t, r) = k}
        inDb == {r \in sess.txn[t] : PK(t, r) = k}
    IN  IF inMap # {}
        THEN [sess EXCEPT !.persistent[t] =
                 (@ \ inMap) \cup {Overwrite(r, given) : r \in inMap}]
        ELSE IF inDb # {}
        THEN [sess EXCEPT !.persistent[t] =
                 @ \cup {Overwrite(r, given) : r \in inDb}]
        ELSE [sess EXCEPT !.pending[t] = Append(@, given)]

RECURSIVE MergeAll(_, _)
\* a sequence of merge calls [table, row], applied in order
MergeAll(sess, ops) ==
    IF ops = <<>> THEN sess
    ELSE MergeAll(Merge(sess, ops[1].table, ops[1].row), Tail(ops))


(***************************************************************************)
(* Session.commit(): the flush writes the session's changes to the         *)
(* connection's transaction, table by table with the parents first; per    *)
(* table the UPDATEs of the persistent objects whose values changed, in    *)
(* primary-key order, then the INSERTs of the pending objects, in the      *)
(* order they were added.  The database checks every statement as it       *)
(* runs; the first one it refuses fails the flush.                         *)
(***************************************************************************)
KeyLess(a, b) ==
    \/ a[1] < b[1]
    \/ a[1] = b[1] /\ Len(a) > 1 /\ a[2] < b[2]

RECURSIVE SortByKey(_, _)
SortByKey(t, rows) ==
    IF rows = {} THEN <<>>
    ELSE LET m == CHOOSE r \in rows :
                      \A q \in rows : q = r \/ KeyLess(PK(t, r), PK(t, q))
         IN  <<m>> \o SortByKey(t, rows \ {m})

\* server_default=func.now() on pokemon.loaded_at (models.py 38-40)
Inserted(t, row, now) ==
    IF t = "pokemon"
    THEN [f \in DOMAIN row \cup {"loaded_at"} |->
             IF f = "loaded_at" THEN now ELSE row[f]]
    ELSE row

\* UPDATE of one row
ApplyUpdate(t, st, row) ==
    IF ~st.ok THEN st
    ELSE LET others == {r \in st.txn[t] : PK(t, r) # PK(t, row)}
         IN  IF NameIsFree(t, others, row)
             THEN [st EXCEPT !.txn[t] = others \cup {row}]
             ELSE [st EXCEPT !.ok = FALSE]

\* INSERT of one row
ApplyInsert(t, st, row, now) ==
    IF ~st.ok THEN st
    ELSE IF /\ \A r \in st.txn[t] : PK(t, r) # PK(t, row)
            /\ NameIsFree(t, st.txn[t], row)
            /\ ForeignKeysHold(t, st.txn, row)
         THEN [st EXCEPT !.txn[t] = @ \cup {Inserted(t, row, now)}]
         ELSE [st EXCEPT !.ok = FALSE]

RECURSIVE ApplyUpdates(_, _, _)
ApplyUpdates(t, st, rows) ==
    IF rows = <<>> THEN st
    ELSE ApplyUpdates(t, ApplyUpdate(t, st, rows[1]), Tail(rows))

RECURSIVE ApplyInserts(_, _, _, _)
ApplyInserts(t, st, rows, now) ==
    IF rows = <<>> THEN st
    ELSE ApplyInserts(t, ApplyInsert(t, st, rows[1], now), Tail(rows), now)

\* the persistent objects of a table whose values differ from their rows
Dirty(sess, t) == sess.persistent[t] \ sess.txn[t]

FlushTable(sess, t, st, now) ==
    ApplyInserts(t, ApplyUpdates(t, st, SortByKey(t, Dirty(sess, t))),
                 sess.pending[t], now)

RECURSIVE FlushFrom(_, _, _, _)
FlushFrom(sess, k, st, now) ==
    IF k > Len(Tables) THEN st
    ELSE FlushFrom(sess, k + 1, FlushTable(sess, Tables[k], st, now), now)

\* the flush of a session: whether every statement passed, and the
\* transaction's view of the store after the statements that ran
Flush(sess, now) == FlushFrom(sess, 1, [ok |-> TRUE, txn |-> sess.txn], now)

(***************************************************************************)
(* Loader (etl.py 138-212).  A dict is the sequence of its items in         *)
(* insertion order; a merge call is [table, row].                          *)
(***************************************************************************)
\* DictPut on a list of pairs: every assignment appends
DictPutAppend(d, k, v) == Append(d, [id |-> k, name |-> v])

DictPut(d, k, v) ==
    IF \E n \in 1..Len(d) : d[n].id = k
    THEN [n \in 1..Len(d) |-> IF d[n].id = k THEN [id |-> k, name |-> v] ELSE d[n]]
    ELSE Append(d, [id |-> k, name |-> v])

RECURSIVE DictPutAll(_, _)
\* for ref_id, ref_name, ... in refs: d[ref_id] = ref_name
DictPutAll(d, refs) ==
    IF refs = <<>> THEN d
    ELSE DictPutAll(DictPut(d, refs[1][1], refs[1][2]), Tail(refs))

RECURSIVE RefMap(_, _, _)
\* lines 144-150 for one of the three maps: field is "types", "abilities" or "stats"
RefMap(d, batch, field) ==
    IF batch = <<>> THEN d
    ELSE RefMap(DictPutAll(d, batch[1][field]), Tail(batch), field)

MergeRefs(t, d) ==
    [n \in 1..Len(d) |-> [table |-> t, row |-> [id |-> d[n].id, name |-> d[n].name]]]

\* upsert_reference_batch with the stat loop left out
upsert_reference_batch_no_stats(batch) ==
    MergeRefs("type", RefMap(<<>>, batch, "types"))
      \o MergeRefs("ability", RefMap(<<>>, batch, "abilities"))

\* upsert_reference_batch: the merge calls it issues, in order
upsert_reference_batch(batch) ==
    MergeRefs("type", RefMap(<<>>, batch, "types"))
      \o MergeRefs("ability", RefMap(<<>>, batch, "abilities"))
      \o MergeRefs("stat", RefMap(<<>>, batch, "stats"))

\* upsert_pokemon: the merge calls it issues, in order
upsert_pokemon(tp) ==
    <<[table |-> "pokemon",
       row |-> [id |-> tp.id, name |-> tp.name,
                base_experience |-> tp.base_experience,
                height_cm |-> tp.height_cm, weight_kg |-> tp.weight_kg,
                bmi |-> tp.bmi, sprite_url |-> tp.sprite_url]]>>
      \o [n \in 1..Len(tp.types) |->
            [table |-> "pokemon_type",
             row |-> [pokemon_id |-> tp.id, type_id |-> tp.types[n][1],
                      slot |-> tp.types[n][3]]]]
      \o [n \in 1..Len(tp.abilities) |->
            [table |-> "pokemon_ability",
             row |-> [pokemon_id |-> tp.id, ability_id |-> tp.abilities[n][1],
                      is_hidden |-> tp.abilities[n][3],
                      slot |-> tp.abilities[n][4]]]]
      \o [n \in 1..Len(tp.stats) |->
            [table |-> "pokemon_stat",
             row |-> [pokemon_id |-> tp.id, stat_id |-> tp.stats[n][1],
                      base_stat |-> tp.stats[n][3],
                      effort |-> tp.stats[n][4]]]]

RECURSIVE UpsertEach(_)
\* for tp in batch: upsert_pokemon(session, tp)
UpsertEach(batch) ==
    IF batch = <<>> THEN <<>>
    ELSE upsert_pokemon(batch[1]) \o UpsertEach(Tail(batch))

\* load_batch: the merge calls it issues, in order
load_batch(batch) == upsert_reference_batch(batch) \o UpsertEach(batch)

\* load_batch_count counting the distinct Pokemon instead of the records
load_batch_count_distinct(batch) ==
    Cardinality({batch[k].id : k \in 1..Len(batch)})

\* load_batch: the count it returns
load_batch_count(batch) == Len(batch)


(***************************************************************************)
(* session_scope (db.py 35-49) around load_batch, as run_etl uses it        *)
(* (pipeline.py 19-21).  run is where the caller stands: "extracted" (the  *)
(* batch is there), "scope" (the session is open), "loaded" (load_batch    *)
(* returned), "committed", "commit_failed" (the exception is on its way    *)
(* to the except clause), "rolled_back", and "idle" after the call.        *)
(***************************************************************************)
NoResult == [kind |-> "none", value |-> <<>>, exc |-> NoExc]
Returned(v) == [kind |-> "returned", value |-> v, exc |-> NoExc]
Raised(e) == [kind |-> "raised", value |-> <<>>, exc |-> e]
IntegrityError == [kind |-> "IntegrityError", attempt |-> 0]

\* SessionCommit over a connection that commits each statement as it runs
SessionCommitEachStatement(sess, db, now) ==
    LET st == Flush(sess, now)
    IN  [ok |-> st.ok,
         store |-> st.txn,
         session |-> [sess EXCEPT !.txn = st.txn,
                                  !.persistent = IF st.ok THEN EmptyStore ELSE @,
                                  !.pending = IF st.ok THEN NoObjects ELSE @]]

\* session.commit(): flush, then commit the transaction when the flush passed
SessionCommit(sess, db, now) ==
    LET st == Flush(sess, now)
    IN  [ok |-> st.ok,
         store |-> IF st.ok THEN st.txn ELSE db,
         session |-> [sess EXCEPT !.txn = st.txn,
                                  !.persistent = IF st.ok THEN EmptyStore ELSE @,
                                  !.pending = IF st.ok THEN NoObjects ELSE @]]

\* session.rollback(): the transaction's writes and the session's objects go
SessionRollback(sess, db) ==
    [sess EXCEPT !.txn = db, !.persistent = EmptyStore, !.pending = NoObjects]

\* what close() leaves of a connection's unfinished transaction: nothing
SessionClose(sess, db) == db

\* line 37: session = SessionLocal(), and the with body is entered
ScopeEnter ==
    /\ run = "extracted"
    /\ session' = OpenSession(store)
    /\ run' = "scope"
    /\ UNCHANGED <<fetchVars, callVars, store, issued, storeBefore, reload>>

\* pipeline.py 20: loaded = load_batch(session, items)
LoadBody ==
    /\ run = "scope"
    /\ issued' = load_batch(items)
    /\ session' = MergeAll(session, load_batch(items))
    /\ loaded' = load_batch_count(items)
    /\ run' = "loaded"
    /\ UNCHANGED <<fetchVars, listCall, listing, details, items, ret, runs,
                   store, storeBefore, reload>>

\* line 40: session.commit(); it returns, or raises into line 41
Commit ==
    /\ run = "loaded"
    /\ LET c == SessionCommit(session, store, runs)
       IN  /\ store' = c.store
           /\ session' = c.session
           /\ run' = IF c.ok THEN "committed" ELSE "commit_failed"
    /\ UNCHANGED <<fetchVars, callVars, issued, storeBefore, reload>>

\* lines 41-43: except Exception: session.rollback(); raise
Rollback ==
    /\ run = "commit_failed"
    /\ session' = SessionRollback(session, store)
    /\ run' = "rolled_back"
    /\ UNCHANGED <<fetchVars, callVars, store, issued, storeBefore, reload>>

\* lines 44-45: finally: session.close(); then the caller returns
\* (len(items), loaded) (pipeline.py 21) or the exception leaves it
Close ==
    /\ run \in {"committed", "rolled_back"}
    /\ session' = ClosedSession
    /\ store' = SessionClose(session, store)
    /\ ret' = IF run = "committed" THEN Returned(<<Len(items), loaded>>)
              ELSE Raised(IntegrityError)
    /\ run' = "idle"
    /\ UNCHANGED <<fetchVars, listCall, listing, details, items, loaded, runs,
                   issued, storeBefore, reload>>

(***************************************************************************)
(* The initial state: nothing has run, the schema is empty.                *)
(***************************************************************************)
Init ==
    /\ targets = <<>>
    /\ task = <<>>
    /\ sem = MAX_CONCURRENCY
    /\ waiters = <<>>
    /\ gathered = <<>>
    /\ gather = [state |-> "idle", exc |-> NoExc]
    /\ requests = <<>>
    /\ inflight = <<>>
    /\ served = <<>>
    /\ run = "idle"
    /\ listCall = IdleCall
    /\ listing = <<>>
    /\ details = <<>>
    /\ items = <<>>
    /\ loaded = 0
    /\ ret = NoResult
    /\ runs = 0
    /\ store = EmptyStore
    /\ session = ClosedSession
    /\ issued = <<>>
    /\ storeBefore = EmptyStore
    /\ reload = FALSE

(***************************************************************************)
(* SpecFetch: one call of fetch_pokemon_details on any list of targets.    *)
(***************************************************************************)
CallFetchDetails ==
    /\ run = "idle" /\ runs = 0
    /\ \E tg \in SeqsUpTo(Names, MaxTargets) : EnterDetails(tg)
    /\ run' = "details"
    /\ runs' = 1
    /\ UNCHANGED <<listCall, listing, details, items, loaded, ret, loadVars>>

\* line 64: gather's list is returned to the caller
FetchReturn ==
    /\ run = "details"
    /\ gather.state = "returned"
    /\ details' = GatherResult(gathered)
    /\ ret' = Returned(<<Len(gathered)>>)
    /\ run' = "idle"
    /\ UNCHANGED <<fetchVars, listCall, listing, items, loaded, runs, loadVars>>

\* gather's exception has left the caller and the loop is torn down
FetchRaise ==
    /\ run = "details"
    /\ gather.state = "raised"
    /\ \A i \in Idx : Finished(task[i])
    /\ ret' = Raised(gather.exc)
    /\ run' = "idle"
    /\ UNCHANGED <<fetchVars, listCall, listing, details, items, loaded, runs,
                   loadVars>>

TaskStep ==
    /\ \E i \in Idx :
          \/ Start(i)
          \/ Resume(i)
          \/ RespondOk(i)
          \/ RespondErr(i)
          \/ SleepDone(i)
          \/ Leave(i)
    /\ UNCHANGED <<run, callVars, loadVars>>

Teardown ==
    /\ CancelAll
    /\ UNCHANGED <<run, callVars, loadVars>>

NextFetch ==
    \/ CallFetchDetails
    \/ TaskStep
    \/ Teardown
    \/ FetchReturn
    \/ FetchRaise

SpecFetch == Init /\ [][NextFetch]_vars


(***************************************************************************)
(* SpecFetchLive: the same call under the scheduling the event loop gives: *)
(* a task that can run is run, every request is answered (with a payload   *)
(* or a failure), every retry delay ends, and asyncio.run tears the loop   *)
(* down once the call has raised.  The targets all carry one name, which   *)
(* only narrows the payloads the remote can answer with, so that a list of *)
(* MAX_CONCURRENCY + 2 targets stays small.                                *)
(***************************************************************************)
LiveTargets == {"ivysaur"}

CallFetchLive ==
    /\ run = "idle" /\ runs = 0
    /\ \E tg \in SeqsUpTo(LiveTargets, MaxLiveTargets) : EnterDetails(tg)
    /\ run' = "details"
    /\ runs' = 1
    /\ UNCHANGED <<listCall, listing, details, items, loaded, ret, loadVars>>

\* the steps of task i alone
TaskStepOf(i) ==
    /\ \/ Start(i)
       \/ Resume(i)
       \/ RespondOk(i)
       \/ RespondErr(i)
       \/ SleepDone(i)
       \/ Leave(i)
    /\ UNCHANGED <<run, callVars, loadVars>>

NextFetchLive ==
    \/ CallFetchLive
    \/ TaskStep
    \/ Teardown
    \/ FetchReturn
    \/ FetchRaise

FairFetch ==
    /\ \A i \in 1..MaxLiveTargets : WF_vars(TaskStepOf(i))
    /\ WF_vars(Teardown)
    /\ WF_vars(FetchReturn)
    /\ WF_vars(FetchRaise)

SpecFetchLive == Init /\ [][NextFetchLive]_vars /\ FairFetch


(***************************************************************************)
(* SpecLoad: session_scope around load_batch, call after call on one       *)
(* store, each call on any batch of transformed records.                   *)
(***************************************************************************)
CallLoad ==
    /\ run = "idle" /\ runs < MaxLoads
    /\ \E batch \in SeqsUpTo(TRecords, MaxBatch) :
          /\ reload' = (ret.kind = "returned" /\ batch = items)
          /\ items' = batch
    /\ storeBefore' = store
    /\ issued' = <<>>
    /\ run' = "extracted"
    /\ runs' = runs + 1
    /\ UNCHANGED <<fetchVars, listCall, listing, details, loaded, ret, store,
                   session>>

NextLoad ==
    \/ CallLoad
    \/ ScopeEnter
    \/ LoadBody
    \/ Commit
    \/ Rollback
    \/ Close

SpecLoad == Init /\ [][NextLoad]_vars


(***************************************************************************)
(* Spec: one run of run_etl (pipeline.py 11-21) on a store that earlier     *)
(* loads have filled.  The listing endpoint answers with any page of at    *)
(* most MaxListing items (limit and offset only choose which page the      *)
(* remote serves).                                                         *)
(***************************************************************************)
\* the store after session_scope + load_batch of a batch, at time now
StoreAfter(db, batch, now) ==
    SessionCommit(MergeAll(OpenSession(db), load_batch(batch)), db, now).store

\* the stores a run can find: the empty schema, or one record loaded before
SeedStores ==
    {EmptyStore} \cup {StoreAfter(EmptyStore, <<r>>, 0) : r \in TRecords}

InitRun ==
    /\ Init!1 /\ Init!2 /\ Init!3 /\ Init!4 /\ Init!5 /\ Init!6 /\ Init!7
    /\ Init!8 /\ Init!9 /\ Init!10 /\ Init!11 /\ Init!12 /\ Init!13
    /\ Init!14 /\ Init!15 /\ Init!16 /\ Init!17
    /\ store \in SeedStores
    /\ session = ClosedSession
    /\ issued = <<>>
    /\ storeBefore = store
    /\ reload = FALSE

ListingItem(n) ==
    [name |-> n, url |-> <<"https:", "", "pokeapi.co", "api", "v2", "pokemon", n, "">>]

\* line 202 of etl.py: targets = [item["name"] for item in listing]
TargetsOf(page) == [k \in 1..Len(page) |-> page[k].name]

\* line 204 of etl.py: [transform_one(p) for p in details]
TransformAll(ps) == [k \in 1..Len(ps) |-> transform_one(ps[k])]

\* run_etl is called: create_schema() leaves the rows alone, asyncio.run
\* starts extract_transform, which awaits the listing's _fetch_json call
RunEtl ==
    /\ run = "idle" /\ runs = 0
    /\ runs' = runs + 1
    /\ run' = "listing"
    /\ listCall' = FetchJsonEnter
    /\ listing' = <<>>
    /\ details' = <<>>
    /\ items' = <<>>
    /\ loaded' = 0
    /\ issued' = <<>>
    /\ storeBefore' = store
    /\ reload' = FALSE
    /\ targets' = <<>>
    /\ task' = <<>>
    /\ sem' = MAX_CONCURRENCY
    /\ waiters' = <<>>
    /\ gathered' = <<>>
    /\ gather' = [state |-> "idle", exc |-> NoExc]
    /\ requests' = <<>>
    /\ inflight' = <<>>
    /\ served' = <<>>
    /\ UNCHANGED <<ret, store, session>>

\* the listing endpoint answers with a page
ListRespondOk ==
    /\ run = "listing" /\ listCall.pc = "get"
    /\ \E page \in SeqsUpTo({ListingItem(n) : n \in Names}, MaxListing) :
          /\ listCall' = FetchJsonOk(listCall, page)
          /\ listing' = page
    /\ UNCHANGED <<fetchVars, run, details, items, loaded, ret, runs, loadVars>>

\* the listing request fails
ListRespondErr ==
    /\ run = "listing" /\ listCall.pc = "get"
    /\ listCall' = FetchJsonErr(listCall, NetworkError(listCall.i + 1))
    /\ UNCHANGED <<fetchVars, run, listing, details, items, loaded, ret, runs,
                   loadVars>>

\* the listing call's retry delay is over
ListSleepDone ==
    /\ run = "listing" /\ listCall.pc = "sleep"
    /\ listCall' = FetchJsonWake(listCall)
    /\ UNCHANGED <<fetchVars, run, listing, details, items, loaded, ret, runs,
                   loadVars>>

\* fetch_pokemon_list returns data["results"] and extract_transform calls
\* fetch_pokemon_details on the names (etl.py 51, 201-203)
ListReturn ==
    /\ run = "listing" /\ listCall.pc = "returned"
    /\ EnterDetails(TargetsOf(listCall.value[1]))
    /\ run' = "details"
    /\ UNCHANGED <<callVars, loadVars>>

\* the listing call used up its attempts: the exception leaves run_etl
ListRaise ==
    /\ run = "listing" /\ listCall.pc = "raised"
    /\ ret' = Raised(listCall.exc)
    /\ run' = "idle"
    /\ UNCHANGED <<fetchVars, listCall, listing, details, items, loaded, runs,
                   loadVars>>

\* etl.py 203-204, pipeline.py 18: the details are there, every payload is
\* transformed, asyncio.run returns the batch
DetailsReturn ==
    /\ run = "details"
    /\ gather.state = "returned"
    /\ details' = GatherResult(gathered)
    /\ items' = TransformAll(GatherResult(gathered))
    /\ run' = "extracted"
    /\ UNCHANGED <<fetchVars, listCall, listing, loaded, ret, runs, loadVars>>

Next ==
    \/ RunEtl
    \/ ListRespondOk
    \/ ListRespondErr
    \/ ListSleepDone
    \/ ListReturn
    \/ ListRaise
    \/ TaskStep
    \/ Teardown
    \/ DetailsReturn
    \/ FetchRaise
    \/ ScopeEnter
    \/ LoadBody
    \/ Commit
    \/ Rollback
    \/ Close

Spec == InitRun /\ [][Next]_vars


(***************************************************************************)
(* SpecTransform: transform_one (etl.py 96-134) applied to one payload      *)
(* whose raw height and raw weight are any integers of magnitude at most   *)
(* MaxRaw, or the values of the payload of test_transform.py (7 and 69).   *)
(***************************************************************************)
RawValues == (-MaxRaw..MaxRaw) \cup {7, 69}

RawPayloads ==
    {[p EXCEPT !.height = h, !.weight = w] :
        p \in Payloads, h \in RawValues, w \in RawValues}

InitTransform ==
    /\ Init!1 /\ Init!2 /\ Init!3 /\ Init!4 /\ Init!5 /\ Init!6 /\ Init!7
    /\ Init!8 /\ Init!9 /\ Init!10 /\ Init!11 /\ Init!12
    /\ details \in {<<p>> : p \in RawPayloads}
    /\ Init!14 /\ Init!15 /\ Init!16 /\ Init!17 /\ Init!18 /\ Init!19
    /\ Init!20 /\ Init!21 /\ Init!22

\* line 204 of etl.py: [transform_one(p) for p in details]
Transform ==
    /\ run = "idle"
    /\ runs = 0
    /\ items' = TransformAll(details)
    /\ runs' = 1
    /\ UNCHANGED <<fetchVars, run, listCall, listing, details, loaded, ret,
                   loadVars>>

NextTransform == Transform

SpecTransform == InitTransform /\ [][NextTransform]_vars


(***************************************************************************)
(* Properties of the fetcher.                                              *)
(***************************************************************************)

\* C1: during fetch_pokemon_details the number of detail fetches admitted
\* through the semaphore and not yet finished (requesting, sleeping between
\* attempts, or just handed a slot) never exceeds MAX_CONCURRENCY, and the
\* semaphore's value accounts for exactly the free slots.
C1_ConcurrencyBound ==
    /\ Cardinality(Holding(task)) <= MAX_CONCURRENCY
    /\ sem = MAX_CONCURRENCY - Cardinality(Holding(task))

\* the cap is reached with more targets than slots: one fetch sleeps between
\* attempts, another is in flight, a third is kept waiting
C1_Witness ==
    /\ Len(targets) > MAX_CONCURRENCY
    /\ Cardinality(Holding(task)) = MAX_CONCURRENCY
    /\ \E i \in Idx : task[i].pc = "running" /\ task[i].call.pc = "sleep"
    /\ \E i \in Idx : task[i].pc = "running" /\ task[i].call.pc = "get"
    /\ \E i \in Idx : task[i].pc = "waiting"

\* C2: a _fetch_json call has at most one request outstanding, sends at most
\* MAX_RETRIES requests, sends none after its first success and returns that
\* success's payload, and raises only after MAX_RETRIES failures, with the
\* exception of the last one.
C2_RetryContract ==
    \A i \in Idx :
        /\ inflight[i] <= 1
        /\ requests[i] <= MAX_RETRIES
        /\ served[i] # None =>
              /\ requests[i] = served[i][1].attempt
              /\ inflight[i] = 0
              /\ task[i].call.pc = "returned"
              /\ task[i].call.value = Some(served[i][1].payload)
        /\ task[i].call.pc = "returned" => served[i] # None
        /\ task[i].call.pc = "raised" =>
              /\ served[i] = None
              /\ requests[i] = MAX_RETRIES
              /\ task[i].call.exc = NetworkError(requests[i])

\* one call has failed MAX_RETRIES times and raised, another has succeeded
\* on a retry
C2_Witness ==
    /\ \E i \in Idx : task[i].pc = "failed" /\ requests[i] = MAX_RETRIES
    /\ \E i \in Idx : task[i].pc = "done" /\ requests[i] > 1


(***************************************************************************)
(* Properties of a run of run_etl.                                         *)
(***************************************************************************)
PokemonIds(db) == {r.id : r \in db.pokemon}

\* the ids of the Pokemon rows a sequence of merge calls upserts, in order
RECURSIVE PokemonMerges(_)
PokemonMerges(ops) ==
    IF ops = <<>> THEN <<>>
    ELSE IF ops[1].table = "pokemon"
         THEN <<ops[1].row.id>> \o PokemonMerges(Tail(ops))
         ELSE PokemonMerges(Tail(ops))

\* C3: once a detail fetch of the run has failed all its attempts, gather
\* raises, no list of payloads and no batch is ever produced, no session is
\* opened and no merge issued, the store keeps the rows it had before the
\* run, and the run ends by raising that fetch's NetworkError.
C3_FailedFetchAbortsRun ==
    (\E i \in Idx : task[i].pc = "failed") =>
        /\ gather.state = "raised"
        /\ \E i \in Idx : task[i].pc = "failed" /\ gather.exc = task[i].call.exc
        /\ gather.exc = NetworkError(MAX_RETRIES)
        /\ run \in {"details", "idle"}
        /\ details = <<>> /\ items = <<>>
        /\ issued = <<>> /\ session.state = "closed"
        /\ store = storeBefore
        /\ run = "idle" => ret = Raised(gather.exc)

\* a run on a filled store has ended by raising although another of its
\* detail fetches had succeeded
C3_Witness ==
    /\ run = "idle" /\ ret.kind = "raised"
    /\ \E i \in Idx : task[i].pc = "failed" /\ requests[i] = MAX_RETRIES
    /\ \E i \in Idx : task[i].pc = "done"
    /\ store # EmptyStore

\* C4: every result slot gather has filled holds the payload the remote
\* served for the target of that index, whatever the order of completion;
\* the returned list, the transformed batch and the Pokemon upserts of
\* load_batch follow the order of the targets.
C4_OrderPreserved ==
    /\ \A i \in Idx :
          gathered[i] # None =>
              /\ served[i] # None
              /\ gathered[i] = Some(served[i][1].payload)
              /\ gathered[i][1].name = targets[i]
    /\ gather.state = "returned" => \A i \in Idx : gathered[i] # None
    /\ run \in {"extracted", "scope", "loaded", "committed", "commit_failed",
                "rolled_back"} =>
          /\ Len(details) = Len(targets) /\ Len(items) = Len(targets)
          /\ \A i \in Idx :
                /\ details[i] = served[i][1].payload
                /\ items[i] = transform_one(served[i][1].payload)
    /\ run \in {"loaded", "committed", "commit_failed", "rolled_back"} =>
          PokemonMerges(issued) = [i \in Idx |-> served[i][1].payload.id]

\* the second target's fetch has completed, and gather has taken its
\* payload, while the first one's is still between two attempts
C4_Witness ==
    /\ Len(targets) = 2 /\ targets[1] # targets[2]
    /\ gathered[2] # None /\ gathered[1] = None
    /\ task[1].pc = "running" /\ task[1].call.pc = "sleep"

\* C7: when run_etl returns, it returns (requested, loaded) with requested
\* the length of the listing page, loaded the length of the batch handed to
\* load_batch, the two equal, and the store holds a Pokemon row for every
\* id of the batch.
C7_CountsOnReturn ==
    (run = "idle" /\ ret.kind = "returned") =>
        /\ ret.value = <<Len(listing), Len(items)>>
        /\ ret.value[1] = ret.value[2]
        /\ loaded = Len(items)
        /\ \A k \in 1..Len(items) : items[k].id \in PokemonIds(store)
        /\ session.state = "closed"

\* scenario A: a listing of two items on the empty store, both loaded
C7_Witness ==
    /\ run = "idle" /\ ret = Returned(<<2, 2>>)
    /\ Len(listing) = 2
    /\ storeBefore = EmptyStore
    /\ PokemonIds(store) = {1, 2}


(***************************************************************************)
(* Properties of the loader and the session scope.                         *)
(***************************************************************************)
AssociationTables == {"pokemon_type", "pokemon_ability", "pokemon_stat"}
ReferenceTables == {"type", "ability", "stat"}

\* the field of a record that feeds a table
FieldOf(t) ==
    CASE t \in {"pokemon_type", "type"} -> "types"
      [] t \in {"pokemon_ability", "ability"} -> "abilities"
      [] t \in {"pokemon_stat", "stat"} -> "stats"

\* the current call has been through load_batch
BodyDone ==
    \/ run \in {"loaded", "committed", "commit_failed", "rolled_back"}
    \/ run = "idle" /\ runs > 0

\* C5: a load that repeats the batch of the load committed just before it
\* commits too and leaves every table exactly as it found it: no row added,
\* none removed, no field changed.
C5_ReloadIsIdempotent ==
    reload =>
        /\ store = storeBefore
        /\ run \notin {"commit_failed", "rolled_back"}
        /\ run = "idle" => ret.kind = "returned"

\* a batch of two records is loaded and committed a second time
C5_Witness ==
    /\ reload
    /\ run = "committed"
    /\ Len(items) = 2
    /\ store.pokemon_type # {}

\* C6: the store changes only by a commit that succeeds; then every row the
\* scope wrote is in the store a later session reads.  When the commit
\* fails, the exception is raised to the caller and the store holds exactly
\* the rows it held when the scope was entered.  The session is closed
\* whenever the call is over.
C6_ScopeIsAtomic ==
    /\ run \in {"extracted", "scope", "loaded", "commit_failed", "rolled_back"}
          => store = storeBefore
    /\ run = "scope" => session.state = "open" /\ session.txn = store
    /\ (run = "committed" \/ (run = "idle" /\ ret.kind = "returned")) =>
          \A k \in 1..Len(issued) :
              (\A j \in (k + 1)..Len(issued) :
                   \/ issued[j].table # issued[k].table
                   \/ PK(issued[j].table, issued[j].row)
                        # PK(issued[k].table, issued[k].row))
              => \E r \in store[issued[k].table] :
                     \A f \in DOMAIN issued[k].row : r[f] = issued[k].row[f]
    /\ run = "idle" =>
          /\ session.state = "closed"
          /\ ret.kind = "raised" => store = storeBefore /\ ret.exc = IntegrityError

\* a batch of two has failed at the commit and left a filled store as it
\* was, although its first record alone would have loaded and changed it
C6_Witness ==
    /\ run = "idle" /\ ret.kind = "raised"
    /\ Len(items) = 2
    /\ store # EmptyStore
    /\ StoreAfter(store, <<items[1]>>, runs) # store


ScalarFields ==
    {"id", "name", "base_experience", "height_cm", "weight_kg", "bmi",
     "sprite_url"}

\* the association rows of Pokemon p in a table
RowsOf(db, t, p) == {r \in db[t] : r.pokemon_id = p}

\* the association row an entry of a record's list stands for
AssocRow(t, p, e) ==
    CASE t = "pokemon_type" -> [pokemon_id |-> p, type_id |-> e[1], slot |-> e[3]]
      [] t = "pokemon_ability" ->
            [pokemon_id |-> p, ability_id |-> e[1], is_hidden |-> e[3], slot |-> e[4]]
      [] t = "pokemon_stat" ->
            [pokemon_id |-> p, stat_id |-> e[1], base_stat |-> e[3], effort |-> e[4]]

\* the positions of the batch that hold a record for Pokemon p
RecordsFor(p) == {k \in 1..Len(items) : items[k].id = p}

Max(S) == CHOOSE x \in S : \A y \in S : y <= x

\* the reference ids the batch's records for p name in a list
Named(p, field) ==
    UNION {{items[k][field][n][1] : n \in 1..Len(items[k][field])} :
              k \in RecordsFor(p)}

\* the last entry, in batch order, that names reference x for Pokemon p
LastEntry(p, field, x) ==
    LET k == Max({j \in RecordsFor(p) :
                     \E n \in 1..Len(items[j][field]) : items[j][field][n][1] = x})
        n == Max({m \in 1..Len(items[k][field]) : items[k][field][m][1] = x})
    IN  items[k][field][n]

\* the Pokemon of the batch that the store held before the call
Reloaded == {items[k].id : k \in 1..Len(items)} \cap PokemonIds(storeBefore)

\* C8 as stated: after a record for an id already loaded is loaded and
\* committed, the persisted state of that id, its Pokemon row and its sets
\* of type, ability and stat rows, is exactly the content of that record.
C8_ExactlyLatestRecord ==
    (run = "idle" /\ ret.kind = "returned") =>
        \A p \in Reloaded :
            Cardinality(RecordsFor(p)) = 1 =>
                LET rec == items[Max(RecordsFor(p))]
                IN  /\ \E r \in store.pokemon :
                          r.id = p /\ \A f \in ScalarFields : r[f] = rec[f]
                    /\ \A t \in AssociationTables :
                          RowsOf(store, t, p) =
                             {AssocRow(t, p, rec[FieldOf(t)][n]) :
                                 n \in 1..Len(rec[FieldOf(t)])}

\* C8, amended: after a load holding records for an id already loaded is
\* committed, the Pokemon row of that id has the scalar attributes of the
\* last such record and the loaded_at it had; every association the records
\* name carries the attributes of the last entry naming it; the association
\* rows of that id the records do not name are kept as they were.
C8_LatestRecordPlusStale ==
    (run = "idle" /\ ret.kind = "returned") =>
        \A p \in Reloaded :
            LET rec == items[Max(RecordsFor(p))]
            IN  /\ \E r \in store.pokemon :
                      /\ r.id = p
                      /\ \A f \in ScalarFields : r[f] = rec[f]
                      /\ \E q \in storeBefore.pokemon :
                            q.id = p /\ q.loaded_at = r.loaded_at
                /\ \A r, q \in store.pokemon : r.id = q.id => r = q
                /\ \A t \in AssociationTables :
                      RowsOf(store, t, p) =
                         {AssocRow(t, p, LastEntry(p, FieldOf(t), x)) :
                             x \in Named(p, FieldOf(t))}
                         \cup {r \in RowsOf(storeBefore, t, p) :
                                  RefId(t, r) \notin Named(p, FieldOf(t))}

\* a reloaded Pokemon has changed its scalars and kept a type row that its
\* latest record no longer names
C8_Witness ==
    /\ run = "idle" /\ ret.kind = "returned"
    /\ \E p \in Reloaded :
          /\ \E r \in store.pokemon, q \in storeBefore.pokemon :
                r.id = p /\ q.id = p /\ r.height_cm # q.height_cm
          /\ \E r \in RowsOf(store, "pokemon_type", p) :
                r.type_id \notin Named(p, "types")

\* the session's objects and the transaction's rows, table by table
InSession(sess, t) ==
    sess.txn[t] \cup sess.persistent[t] \cup Range(sess.pending[t])

\* every association row references a Pokemon row and a reference row
Referential(rowsOf) ==
    \A t \in AssociationTables :
        \A r \in rowsOf[t] :
            /\ \E q \in rowsOf["pokemon"] : q.id = r.pokemon_id
            /\ \E q \in rowsOf[RefTable(t)] : q.id = RefId(t, r)

\* C9: in the committed store, after any sequence of loads that committed
\* or failed, every association row references an existing Pokemon row and
\* an existing reference row; and load_batch never hands the database an
\* association whose Pokemon or reference it has not upserted or found.
C9_ReferentialIntegrity ==
    /\ Referential(store)
    /\ run = "loaded" => Referential([t \in Range(Tables) |-> InSession(session, t)])

\* the store holds association rows after a load that failed
C9_Witness ==
    /\ run = "idle" /\ ret.kind = "raised"
    /\ store.pokemon_type # {} /\ store.pokemon_ability # {}
    /\ store.pokemon_stat # {}

\* the ids of the merge calls on a table, in order
RECURSIVE MergedIds(_, _)
MergedIds(ops, t) ==
    IF ops = <<>> THEN <<>>
    ELSE IF ops[1].table = t
         THEN <<ops[1].row.id>> \o MergedIds(Tail(ops), t)
         ELSE MergedIds(Tail(ops), t)

\* the reference ids that appear anywhere in the batch, per list
IdsInBatch(field) ==
    UNION {{items[k][field][n][1] : n \in 1..Len(items[k][field])} :
              k \in 1..Len(items)}

\* C10: load_batch issues, for each reference table, one merge per distinct
\* id that appears in the batch and none for any other id, and issues all
\* of them before the first Pokemon or association merge.
C10_OneUpsertPerReference ==
    BodyDone =>
        /\ \A t \in ReferenceTables :
              LET ids == MergedIds(issued, t)
              IN  /\ Range(ids) = IdsInBatch(FieldOf(t))
                  /\ Len(ids) = Cardinality(IdsInBatch(FieldOf(t)))
        /\ \A a, b \in 1..Len(issued) :
              (issued[a].table \notin ReferenceTables
                 /\ issued[b].table \in ReferenceTables) => b < a

\* two records of a batch share their type, ability and stat, each of which
\* is merged once, ahead of both Pokemon
C10_Witness ==
    /\ run = "loaded"
    /\ Len(items) = 2
    /\ items[1].id # items[2].id
    /\ \E x \in Named(items[1].id, "types") : x \in Named(items[2].id, "types")
    /\ Len(MergedIds(issued, "type")) = 2
    /\ Len(PokemonMerges(issued)) = 2


(***************************************************************************)
(* Properties of the transformer.                                          *)
(***************************************************************************)
\* the payload has been transformed
Transformed == runs = 1 /\ Len(items) = Len(details)

\* C11 as stated: in every record transform_one produces from an integer
\* raw height, bmi is null if and only if height_cm is 0.
C11_NullIffZero ==
    Transformed =>
        \A k \in 1..Len(items) :
            (items[k].bmi = None) <=> (items[k].height_cm = 0)

\* C11: in every record transform_one produces from an integer raw height,
\* bmi is null if and only if height_cm is not positive (so, for a raw
\* height that is not negative, if and only if height_cm is 0); when
\* height_cm is positive, bmi is the value weight_kg / (height_cm / 100)^2.
C11_NullIffNotPositive ==
    Transformed =>
        \A k \in 1..Len(items) :
            LET r == items[k] IN
            /\ (r.bmi = None) <=> (r.height_cm <= 0)
            /\ details[k].height >= 0 => ((r.bmi = None) <=> (r.height_cm = 0))
            /\ r.height_cm > 0 =>
                  /\ r.bmi # None
                  /\ r.bmi[1].den > 0
                  /\ r.bmi[1].num * r.weight_kg.den * r.height_cm * r.height_cm
                        = r.bmi[1].den * r.weight_kg.num * 10000

\* a raw height below zero has been transformed: bmi is null and height_cm
\* is negative, not 0
C11_Witness ==
    /\ Transformed
    /\ details[1].height < 0
    /\ items[1].height_cm < 0
    /\ items[1].bmi = None

\* C12: for a payload whose raw height h and raw weight w are not negative,
\* transform_one yields height_cm = h * 10 and weight_kg = w / 10 (70 and
\* 6.9 for h = 7 and w = 69), and the id, name and base_experience of the
\* payload.
C12_UnitsAndIdentity ==
    Transformed =>
        \A k \in 1..Len(items) :
            LET p == details[k]
                r == items[k]
            IN  (p.height >= 0 /\ p.weight >= 0) =>
                  /\ r.height_cm = 10 * p.height
                  /\ r.weight_kg.den > 0
                  /\ r.weight_kg.num * 10 = p.weight * r.weight_kg.den
                  /\ (p.height = 7 /\ p.weight = 69) =>
                        /\ r.height_cm = 70
                        /\ r.weight_kg = [num |-> 69, den |-> 10]
                  /\ r.id = p.id
                  /\ r.name = p.name
                  /\ r.base_experience = p.base_experience

\* the payload of the test, whose weight is not a multiple of 10, served
\* under the second identity
C12_Witness ==
    /\ Transformed
    /\ details[1].height = 7 /\ details[1].weight = 69
    /\ items[1].height_cm = 70
    /\ items[1].weight_kg = [num |-> 69, den |-> 10]
    /\ items[1].base_experience = Some(64)
    /\ items[1].id = 2 /\ items[1].name = "bulbasaur"


(***************************************************************************)
(* Termination of fetch_pokemon_details.                                   *)
(***************************************************************************)
\* task i has taken a slot of the semaphore at some point
Admitted(i) == i \in Idx /\ task[i].pc \in {"admitted", "running", "done", "failed"}

\* task i was cancelled by the teardown that follows the raised call
Cancelled(i) == i \in Idx /\ gather.state = "raised" /\ task[i].pc = "cancelled"

\* the call is over: the list was returned or the exception raised
CallOver == run = "idle" /\ runs = 1 /\ ret.kind \in {"returned", "raised"}

\* slots are neither lost nor made: a task gives its slot back on return,
\* on exception and on cancellation
SlotsConserved ==
    /\ sem + Cardinality(Holding(task)) = MAX_CONCURRENCY
    /\ CallOver => sem = MAX_CONCURRENCY /\ waiters = <<>>

LeavesQueue ==
    \A i \in Idx :
        (task[i].pc = "waiting" /\ i \in DOMAIN task' /\ task'[i].pc # "waiting")
            => \/ task'[i].pc = "admitted"
               \/ task'[i].pc = "cancelled" /\ gather.state = "raised"

\* when the call is over no task is left behind, and a call that returned
\* has admitted every target and holds a payload for each
NobodyLeftBehind ==
    CallOver =>
        /\ \A i \in Idx : Finished(task[i])
        /\ ret.kind = "returned" =>
              \A i \in Idx : task[i].pc = "done" /\ gathered[i] # None
        /\ ret.kind = "raised" =>
              \A i \in Idx : task[i].pc = "cancelled" \/ Admitted(i)

=============================================================================
